---------------------------- MODULE Spec2Model ----------------------------
(***************************************************************************)
(* Model of the GitHub Discovery Platform scan pipeline:                   *)
(*   - AutoScanner (auto-scanner.js): scheduler, single-flight run,        *)
(*     paginated language scan, per-repository enrichment, scoring;        *)
(*   - BackendService.saveProject (api.js): upsert into the projects       *)
(*     table keyed by github_id.                                           *)
(* Scores are kept in tenths (5.0 is 50, 10 is 100) so that the            *)
(* arithmetic stays in the integers.                                       *)
(***************************************************************************)
EXTENDS Integers, Sequences, FiniteSets, TLC

(***************************************************************************)
(* Text.  A string is a sequence of one-character strings.                 *)
(***************************************************************************)
Chars(s) ==
  CASE
         s = "OAuth" -> <<"O", "A", "u", "t", "h">>
      [] s = "api" -> <<"a", "p", "i">>
      [] s = "database" -> <<"d", "a", "t", "a", "b", "a", "s", "e">>
      [] s = "build" -> <<"b", "u", "i", "l", "d">>
      [] s = "framework" -> <<"f", "r", "a", "m", "e", "w", "o", "r", "k">>
      [] s = "client" -> <<"c", "l", "i", "e", "n", "t">>
      [] s = "test" -> <<"t", "e", "s", "t">>
      [] s = "typescript" -> <<"t", "y", "p", "e", "s", "c", "r", "i", "p", "t">>
      [] s = "async" -> <<"a", "s", "y", "n", "c">>
      [] s = "security" -> <<"s", "e", "c", "u", "r", "i", "t", "y">>
      [] s = "performance" -> <<"p", "e", "r", "f", "o", "r", "m", "a", "n", "c", "e">>
      [] s = "Install" -> <<"I", "n", "s", "t", "a", "l", "l">>
      [] s = "usage" -> <<"u", "s", "a", "g", "e">>
      [] s = "production" -> <<"p", "r", "o", "d", "u", "c", "t", "i", "o", "n">>
      [] s = "auth" -> <<"a", "u", "t", "h">>
      [] s = "authentication" -> <<"a", "u", "t", "h", "e", "n", "t", "i", "c", "a", "t", "i", "o", "n">>
      [] s = "rest" -> <<"r", "e", "s", "t">>
      [] s = "orm" -> <<"o", "r", "m">>
      [] s = "ui" -> <<"u", "i">>
      [] s = "component" -> <<"c", "o", "m", "p", "o", "n", "e", "n", "t">>
      [] s = "cli" -> <<"c", "l", "i">>
      [] s = "command" -> <<"c", "o", "m", "m", "a", "n", "d">>
      [] s = "testing" -> <<"t", "e", "s", "t", "i", "n", "g">>
      [] s = "install" -> <<"i", "n", "s", "t", "a", "l", "l">>
      [] s = "example" -> <<"e", "x", "a", "m", "p", "l", "e">>

LowerChar(c) ==
  CASE c = "A" -> "a"
    [] c = "I" -> "i"
    [] c = "O" -> "o"
    [] OTHER -> c

\* String.prototype.toLowerCase
toLowerCase(s) == [i \in 1..Len(s) |-> LowerChar(s[i])]

\* String.prototype.includes
includes(s, t) ==
  \E i \in 1..(Len(s) - Len(t) + 1) : SubSeq(s, i, i + Len(t) - 1) = t

\* The words a README of the model is made of, and the terms the scanner
\* searches for.
Vocabulary ==
  {"OAuth", "api", "database", "build", "framework", "client", "test", "typescript", "async", "security", "performance", "Install", "usage", "production"}

Terms ==
  {"auth", "authentication", "api", "rest", "database", "orm",
   "ui", "component", "framework", "cli", "command", "testing",
   "test", "typescript", "async", "security", "performance", "install",
   "usage", "example", "production"}

\* For every word, the terms that occur in its lower-cased spelling.  Words
\* of a README are separated by white space and no term contains white
\* space, so a term occurs in the lower-cased README exactly when it occurs
\* in one of its lower-cased words.
TermsOf ==
  [w \in Vocabulary |->
     {t \in Terms : includes(toLowerCase(Chars(w)), Chars(t))}]

\* Number of characters the words of a README take, one separator each.
RECURSIVE TextLen(_)
TextLen(ws) ==
  IF ws = {} THEN 0
  ELSE LET w == CHOOSE x \in ws : TRUE
       IN  Len(Chars(w)) + 1 + TextLen(ws \ {w})

(***************************************************************************)
(* Scoring engine (pure functions of the repository and the README).       *)
(* A README is [words, len]: the set of its words and its length in        *)
(* characters; a repository is [id, name, stars].                          *)
(***************************************************************************)
\* readmeLower.includes(term)
readmeIncludes(readme, t) == \E w \in readme.words : t \in TermsOf[w]

\* The threshold of 'basic' taken inclusively (>= 500).
assessDocQualityFrom500(readme) ==
  LET length     == readme.len
      hasInstall == readmeIncludes(readme, "install")
      hasUsage   == readmeIncludes(readme, "usage")
                      \/ readmeIncludes(readme, "example")
  IN  IF length > 3000 /\ hasInstall /\ hasUsage THEN "excellent"
      ELSE IF length > 1500 /\ (hasInstall \/ hasUsage) THEN "good"
      ELSE IF length >= 500 THEN "basic"
      ELSE "poor"

assessDocQuality(readme) ==
  LET length     == readme.len
      hasInstall == readmeIncludes(readme, "install")
      hasUsage   == readmeIncludes(readme, "usage")
                      \/ readmeIncludes(readme, "example")
  IN  IF length > 3000 /\ hasInstall /\ hasUsage THEN "excellent"
      ELSE IF length > 1500 /\ (hasInstall \/ hasUsage) THEN "good"
      ELSE IF length > 500 THEN "basic"
      ELSE "poor"

assessComplexity(readme) ==
  IF readme.len > 5000 THEN "high"
  ELSE IF readme.len > 2000 THEN "medium"
  ELSE "low"

\* The api terms tested before the authentication terms.
detectCategoryApiFirst(readme) ==
  IF readmeIncludes(readme, "api") \/ readmeIncludes(readme, "rest")
    THEN "api"
  ELSE IF readmeIncludes(readme, "auth") \/ readmeIncludes(readme, "authentication")
    THEN "authentication"
  ELSE IF readmeIncludes(readme, "database") \/ readmeIncludes(readme, "orm")
    THEN "database"
  ELSE IF readmeIncludes(readme, "ui") \/ readmeIncludes(readme, "component")
    THEN "ui"
  ELSE IF readmeIncludes(readme, "framework")
    THEN "framework"
  ELSE IF readmeIncludes(readme, "cli") \/ readmeIncludes(readme, "command")
    THEN "cli"
  ELSE IF readmeIncludes(readme, "testing") \/ readmeIncludes(readme, "test")
    THEN "testing"
  ELSE "general"

detectCategory(readme) ==
  IF readmeIncludes(readme, "auth") \/ readmeIncludes(readme, "authentication")
    THEN "authentication"
  ELSE IF readmeIncludes(readme, "api") \/ readmeIncludes(readme, "rest")
    THEN "api"
  ELSE IF readmeIncludes(readme, "database") \/ readmeIncludes(readme, "orm")
    THEN "database"
  ELSE IF readmeIncludes(readme, "ui") \/ readmeIncludes(readme, "component")
    THEN "ui"
  ELSE IF readmeIncludes(readme, "framework")
    THEN "framework"
  ELSE IF readmeIncludes(readme, "cli") \/ readmeIncludes(readme, "command")
    THEN "cli"
  ELSE IF readmeIncludes(readme, "testing") \/ readmeIncludes(readme, "test")
    THEN "testing"
  ELSE "general"

detectFeatures(readme) ==
  LET f1 == IF readmeIncludes(readme, "typescript") THEN <<"typescript">> ELSE <<>>
      f2 == IF readmeIncludes(readme, "async") THEN <<"async">> ELSE <<>>
      f3 == IF readmeIncludes(readme, "security") THEN <<"security">> ELSE <<>>
      f4 == IF readmeIncludes(readme, "performance") THEN <<"performance">> ELSE <<>>
  IN  f1 \o f2 \o f3 \o f4

analyzeRepo(repo, readme) ==
  [category              |-> detectCategory(readme),
   features              |-> detectFeatures(readme),
   has_documentation     |-> readme.len > 500,
   documentation_quality |-> assessDocQuality(readme),
   complexity            |-> assessComplexity(readme),
   production_ready      |-> readmeIncludes(readme, "production")
                               \/ repo.stars > 1000]

Min(a, b) == IF a < b THEN a ELSE b

\* Math.min(score, 10) left out: the raw sum is returned.
calculateUtilityScoreNoClamp(repo, readme, analysis) ==
  LET starsBonus == IF repo.stars > 10000 THEN 20
                    ELSE IF repo.stars > 1000 THEN 10
                    ELSE IF repo.stars > 100 THEN 5
                    ELSE 0
      docBonus   == IF analysis.documentation_quality = "excellent" THEN 15
                    ELSE IF analysis.documentation_quality = "good" THEN 10
                    ELSE IF analysis.documentation_quality = "basic" THEN 5
                    ELSE 0
      featBonus  == Len(analysis.features) * 2
      prodBonus  == IF analysis.production_ready THEN 10 ELSE 0
  IN  50 + starsBonus + docBonus + featBonus + prodBonus

\* The star thresholds taken inclusively (>= in the place of >).
calculateUtilityScoreInclusive(repo, readme, analysis) ==
  LET starsBonus == IF repo.stars >= 10000 THEN 20
                    ELSE IF repo.stars >= 1000 THEN 10
                    ELSE IF repo.stars >= 100 THEN 5
                    ELSE 0
      docBonus   == IF analysis.documentation_quality = "excellent" THEN 15
                    ELSE IF analysis.documentation_quality = "good" THEN 10
                    ELSE IF analysis.documentation_quality = "basic" THEN 5
                    ELSE 0
      featBonus  == Len(analysis.features) * 2
      prodBonus  == IF analysis.production_ready THEN 10 ELSE 0
  IN  Min(50 + starsBonus + docBonus + featBonus + prodBonus, 100)

\* In tenths: 50 is the base 5.0, 100 the cap 10.
calculateUtilityScore(repo, readme, analysis) ==
  LET starsBonus == IF repo.stars > 10000 THEN 20
                    ELSE IF repo.stars > 1000 THEN 10
                    ELSE IF repo.stars > 100 THEN 5
                    ELSE 0
      docBonus   == IF analysis.documentation_quality = "excellent" THEN 15
                    ELSE IF analysis.documentation_quality = "good" THEN 10
                    ELSE IF analysis.documentation_quality = "basic" THEN 5
                    ELSE 0
      featBonus  == Len(analysis.features) * 2
      prodBonus  == IF analysis.production_ready THEN 10 ELSE 0
  IN  Min(50 + starsBonus + docBonus + featBonus + prodBonus, 100)

(***************************************************************************)
(* Bounds of the model.                                                    *)
(***************************************************************************)
\* Per-language quota (REPOS_PER_LANGUAGE is 600 in the source).
MaxRepos == 2
\* Largest page the provider returns (perPage is 100 in the source).
MaxPageSize == 2
\* Last instant of the model clock.
MaxTime == 1
MaxTicks == 3
MaxReset == 5
\* Number of distinct repositories (github_id values) the provider knows.
MaxIds == 2
\* Number of runScan frames the model has room for.
MaxFrames == 2
\* Largest number of words in a README handed to the scoring engine.
MaxWords == 5

\* Scheduler period in clock units (12 hours in the source).
IntervalMs == 1

SCAN_LANGUAGES == <<"JavaScript", "Python", "Java", "TypeScript", "Go">>
REPOS_PER_LANGUAGE == MaxRepos

NULL == -1
\* scanInterval once clearInterval has been called on it.
CLEARED == -2

(***************************************************************************)
(* Inputs.                                                                 *)
(***************************************************************************)
StarCounts == {0, 100, 101, 1000, 1001, 10000, 10001}
Lengths    == {0, 500, 501, 1500, 1501, 3000, 3001, 5001, 10001}

\* READMEs handed to the scoring engine: up to MaxWords words, and a length
\* that leaves room for them.
Readmes ==
  {r \in [words : {ws \in SUBSET Vocabulary : Cardinality(ws) <= MaxWords},
          len   : Lengths] : r.len >= TextLen(r.words)}

\* null, as a description.
NoDescription == "null"

\* An item of the search response: the fields processRepo reads.  What goes
\* with the name: n1 has no description and no topics, n2 has both.
repoItem(k, n, s) ==
  [id |-> k, name |-> n, stars |-> s,
   full_name   |-> IF n = "n1" THEN "o1/n1" ELSE "o2/n2",
   description |-> IF n = "n1" THEN NoDescription ELSE "d2",
   language    |-> IF n = "n1" THEN "JavaScript" ELSE "Go",
   topics      |-> IF n = "n1" THEN <<>> ELSE <<"t2">>]

Repos == {repoItem(k, n, s) : k \in 1..MaxIds, n \in {"n1", "n2"},
                              s \in StarCounts}

\* What the provider serves during a scan: one repository, whose README is
\* empty or not.
ScanRepos == {r \in Repos : r.id = 1 /\ r.name = "n1" /\ r.stars = 1001}

ScanReadmes ==
  { [words |-> {}, len |-> 0],
    [words |-> {"api", "Install", "usage", "typescript"}, len |-> 10001] }

\* What saveProject is handed when the store is exercised on its own: every
\* repository of the provider as it is first seen, and as it is seen later,
\* renamed, with more stars and another README.
StoreInputs ==
  {[repo   |-> repoItem(k, "n1", 100),
    readme |-> [words |-> {"OAuth", "api"}, len |-> 501]] : k \in 1..MaxIds}
  \cup
  {[repo   |-> repoItem(k, "n2", 10001),
    readme |-> [words |-> {"api", "Install", "usage", "typescript"},
                len |-> 10001]] : k \in 1..MaxIds}

(***************************************************************************)
(* State.                                                                  *)
(***************************************************************************)
VARIABLES
  started,       \* initScanner has run
  now,           \* Date.now() / CURRENT_TIMESTAMP, in clock units
  isScanning,    \* AutoScanner.isScanning
  lastScanTime,  \* AutoScanner.lastScanTime (NULL before the first record)
  totalScanned,  \* AutoScanner.totalScanned
  scanInterval,  \* AutoScanner.scanInterval: NULL, or the timer's next due time
  nextScanTime,  \* AutoScanner.nextScanTime
  runs,          \* the runScan invocations that passed the guard, by invocation
  store,         \* rows of the projects table
  inRepo,        \* scoring engine under test: repository handed in
  inReadme,      \*   README handed in
  outAnalysis,   \*   analysis returned (NULL before the call)
  outScore,      \*   score returned (NULL before the call)
  lastCall,      \* store under test: the last saveProject call and its result
  server,        \* startServer: "starting", "binding" (app.listen called),
                 \*   "listening" (its callback has run)
  exited,        \* process.exit has been called
  history,       \* history of a run: whether its frame records totalScanned
                 \*   at its start and its calls of processRepo
  backoff        \* throttle branch under test: the reset header, the instant
                 \*   of the response, and the wait computed from them

scannerVars == <<started, now, isScanning, lastScanTime, totalScanned,
                 scanInterval, nextScanTime, runs, store>>
scoreVars   == <<inRepo, inReadme, outAnalysis, outScore, lastCall>>
procVars    == <<server, exited>>
vars        == <<started, now, isScanning, lastScanTime, totalScanned,
                 scanInterval, nextScanTime, runs, store,
                 inRepo, inReadme, outAnalysis, outScore, lastCall,
                 server, exited, history, backoff>>

\* The frames of the runScan invocations in progress.  runScan's guard is
\* what keeps all but one of them idle.
Invocations == 1..MaxFrames


\* The response has no x-ratelimit-reset header.
NoHeader == NULL

NoBackoff == [reset |-> NoHeader, at |-> 0, done |-> FALSE,
              waitTime |-> 0, wake |-> 0]

NoProject == [github_id |-> 0]
NoCall    == [project |-> NoProject, success |-> FALSE]

\* The frame of one runScan invocation: where it is suspended (pc), the
\* locals of runScan (lang: index into SCAN_LANGUAGES; scheduled: called
\* from the timer callback) and of scanLanguage (page, scannedCount, items:
\* items of data.items not yet iterated over), the outcome of the last
\* README fetch (readme) and the argument of the pending saveProject call
\* (project).
\*   pc: "page"      await fetch(search page)          scanLanguage
\*       "throttled" await sleep(waitTime) after a 403  scanLanguage
\*       "readme"    await fetch(README)                fetchReadme
\*       "save"      await backend.saveProject          processRepo
\*       "itemSleep" await sleep(500)                   scanLanguage
\*       "langSleep" await sleep(5000)                  runScan
IdleRun ==
  [pc |-> "idle", scheduled |-> FALSE, lang |-> 0, page |-> 0,
   scannedCount |-> 0, items |-> 0, readme |-> "none", project |-> NoProject,
   startTotal |-> 0, attempted |-> 0, answer |-> "none"]

ActiveRuns == {i \in Invocations : runs[i].pc # "idle"}

\* The frame a new invocation of runScan gets.
FreeFrame == CHOOSE i \in Invocations :
               /\ runs[i].pc = "idle"
               /\ \A j \in Invocations : runs[j].pc = "idle" => i <= j

Init ==
  /\ started = FALSE
  /\ now = 0
  /\ isScanning = FALSE
  /\ lastScanTime = NULL
  /\ totalScanned = 0
  /\ scanInterval = NULL
  /\ nextScanTime = NULL
  /\ runs = [i \in Invocations |-> IdleRun]
  /\ store = {}
  /\ inRepo = NULL /\ inReadme = NULL /\ outAnalysis = NULL /\ outScore = NULL
  /\ lastCall = NoCall
  /\ server = "starting"
  /\ exited = FALSE
  /\ history = FALSE
  /\ backoff = NoBackoff

(***************************************************************************)
(* BackendService.saveProject: the upsert statement.                       *)
(***************************************************************************)
\* The row INSERT creates at instant t: the values of the call, and both
\* timestamps by their default.  topics and ai_analysis stand for their
\* JSON text.
newRow(projectData, t) ==
  [github_id |-> projectData.github_id, name |-> projectData.name,
   full_name |-> projectData.full_name,
   description |-> projectData.description,
   language |-> projectData.language,
   stars |-> projectData.stars,
   topics |-> projectData.topics,
   readme_content |-> projectData.readme_content,
   ai_analysis |-> projectData.ai_analysis,
   utility_score |-> projectData.utility_score,
   category |-> projectData.category,
   created_at |-> t, scanned_at |-> t]

\* The statement without its ON CONFLICT clause, on a table without the
\* UNIQUE constraint.
upsertAlwaysInsert(table, projectData, t) ==
  table \cup {newRow(projectData, t)}

\* INSERT OR REPLACE in the place of the ON CONFLICT clause: the row of the
\* github_id is replaced by a new one.
upsertReplace(table, projectData, t) ==
  {row \in table : row.github_id # projectData.github_id}
    \cup {newRow(projectData, t)}

\* INSERT ... ON CONFLICT(github_id) DO UPDATE SET ... run at instant t:
\* the table afterwards.
upsert(table, projectData, t) ==
  IF \E row \in table : row.github_id = projectData.github_id
  THEN {IF row.github_id = projectData.github_id
        THEN [row EXCEPT !.stars = projectData.stars,
                         !.readme_content = projectData.readme_content,
                         !.ai_analysis = projectData.ai_analysis,
                         !.utility_score = projectData.utility_score,
                         !.scanned_at = t]
        ELSE row : row \in table}
  ELSE table \cup {newRow(projectData, t)}

\* readme.substring(0, 10000)
substring10000(readme) == [readme EXCEPT !.len = Min(readme.len, 10000)]

\* The projectData object processRepo builds.
projectDataOf(repo, readme) ==
  LET analysis == analyzeRepo(repo, readme)
  IN  [github_id |-> repo.id, name |-> repo.name,
       full_name |-> repo.full_name,
       description |-> IF repo.description = NoDescription THEN ""
                       ELSE repo.description,
       language |-> repo.language,
       stars |-> repo.stars,
       topics |-> repo.topics,
       readme_content |-> substring10000(readme),
       ai_analysis |-> analysis,
       utility_score |-> calculateUtilityScore(repo, readme, analysis),
       category |-> analysis.category]

(***************************************************************************)
(* AutoScanner: frames of runScan / scanLanguage.                          *)
(***************************************************************************)
\* runScan past its guard: the frame of the run.  With the history kept,
\* the frame records totalScanned at that instant.
enterRun(run, total) ==
  IF history THEN [run EXCEPT !.startTotal = total, !.attempted = 0] ELSE run

\* `await this.processRepo(repo)` is called: with the history kept, the
\* frame counts the call.
passItem(run) == IF history THEN [run EXCEPT !.attempted = @ + 1] ELSE run

\* runScan without its guard.
runScanProceedsAlways(scanning) == TRUE

\* runScan's guard: the call proceeds unless a scan is in progress.

runScanProceeds(scanning) == ~scanning

\* The loop over SCAN_LANGUAGES taking the list from its end.
beginLanguageFromEnd(run, l) ==
  [run EXCEPT !.pc = "page", !.lang = Len(SCAN_LANGUAGES) + 1 - l,
              !.page = 1, !.scannedCount = 0,
              !.items = 0, !.readme = "none", !.answer = "none"]

\* runScan enters the loop over SCAN_LANGUAGES and scanLanguage issues the
\* request for page 1 of language l.
beginLanguage(run, l) ==
  [run EXCEPT !.pc = "page", !.lang = l, !.page = 1, !.scannedCount = 0,
              !.items = 0, !.readme = "none", !.answer = "none"]

\* scanLanguage returns; runScan sleeps before the next language.
endLanguage(run) ==
  [run EXCEPT !.pc = "langSleep", !.page = 0, !.scannedCount = 0,
              !.items = 0, !.readme = "none"]

\* The test of the while loop: another page request, or the language ends.
loopTest(run) ==
  IF run.scannedCount < REPOS_PER_LANGUAGE
  THEN [run EXCEPT !.pc = "page", !.items = 0, !.readme = "none"]
  ELSE endLanguage(run)

\* The answers to a page request that end the scan of the language: a page
\* without items, a status that is neither ok nor 403, and an exception
\* (fetch or response.json() rejects) caught at line 138.
PageEndings == {"empty", "status", "exception"}

\* The loop going round after such an answer (no break).
onPageEndContinues(run, cause) ==
  [run EXCEPT !.pc = "page", !.items = 0, !.readme = "none",
              !.answer = cause]

\* break: scanLanguage returns.  The frame keeps the answer until the next
\* language begins.
onPageEnd(run, cause) == [endLanguage(run) EXCEPT !.answer = cause]

\* The retry after a 403 moving on to the next page.
onThrottleNextPage(run) == [run EXCEPT !.pc = "throttled", !.page = @ + 1]

\* A 403 on the page request: sleep, then `continue`.

onThrottle(run) == [run EXCEPT !.pc = "throttled"]

\* A page of n items arrived: the for loop hands the first one to processRepo,
\* which awaits fetchReadme.
onItems(run, n) ==
  passItem([run EXCEPT !.pc = "readme", !.items = n, !.readme = "none"])

\* scannedCount++ left out.
afterItemNoCount(run, outcome) ==
  [run EXCEPT !.pc = "itemSleep", !.readme = outcome, !.project = NoProject]

\* processRepo returned: scannedCount++ and sleep(500).
afterItem(run, outcome) ==
  [run EXCEPT !.pc = "itemSleep", !.scannedCount = @ + 1,
              !.readme = outcome, !.project = NoProject]

\* The failure of saveProject reaching the catch of scanLanguage: break.
onSaveFailedBreaks(run) == endLanguage(run)

\* saveProject returned {success: false}: processRepo takes no notice and
\* returns, as after a record stored.
onSaveFailed(run) == afterItem(run, "unsaved")

\* The for loop without `if (scannedCount >= maxRepos) break`.
nextItemNoBreak(run) ==
  IF run.items > 1
  THEN passItem([run EXCEPT !.pc = "readme", !.items = @ - 1,
                             !.readme = "none"])
  ELSE loopTest([run EXCEPT !.page = @ + 1])

\* After sleep(500): the next item of the page unless the quota is reached
\* (`if (scannedCount >= maxRepos) break`), else page++ and the loop test.
nextItem(run) ==
  IF run.items > 1 /\ run.scannedCount < REPOS_PER_LANGUAGE
  THEN passItem([run EXCEPT !.pc = "readme", !.items = @ - 1,
                             !.readme = "none"])
  ELSE loopTest([run EXCEPT !.page = @ + 1])

\* The counter counting stored records only.
countItemStoredOnly(total, outcome) ==
  IF outcome = "stored" THEN total + 1 ELSE total

\* this.totalScanned++ after processRepo returned, whatever it came to.
countItem(total, outcome) == total + 1

\* null, as a README.
NoReadme == [words |-> {}, len |-> NULL]

\* Responses to the README request: a status, and the decoded content when
\* the status is 200.  Status 0 stands for a rejected fetch (network error).
ReadmeResponses ==
  {[status |-> 200, content |-> r] : r \in ScanReadmes}
    \cup {[status |-> st, content |-> NoReadme] : st \in {0, 403, 404}}

\* fetchReadme: null when fetch rejects or the response is not ok, the
\* decoded content otherwise.
fetchReadme(response) ==
  IF response.status = 200 THEN response.content ELSE NoReadme

\* `if (!readme) return`: null and the empty string are skipped.
readmeMissing(readme) == readme = NoReadme \/ readme.len = 0

\* What the README fetch came to, for the frame.
readmeOutcome(response) ==
  IF response.status = 403 THEN "throttle"
  ELSE IF response.status = 0 THEN "failed"
  ELSE IF readmeMissing(fetchReadme(response)) THEN "absent"
  ELSE "ok"

(***************************************************************************)
(* Actions.                                                                *)
(***************************************************************************)
\* The tail of runScan (and of the timer callback awaiting it): the run of
\* invocation i ends, normally (completed) or through the catch block.
finishRun(i, completed) ==
  /\ isScanning' = FALSE
  /\ lastScanTime' = IF completed THEN now ELSE lastScanTime
  /\ nextScanTime' = IF runs[i].scheduled THEN now + IntervalMs
                     ELSE nextScanTime
  /\ runs' = [runs EXCEPT ![i] = IdleRun]

\* startServer with the scan awaited: app.listen is not called while the
\* initial scan is in progress.
listenCalledAfterScan(scanning) == IF scanning THEN "starting" ELSE "binding"

\* startServer after `await initScanner()`: neither startInitialScan nor
\* initScanner awaits runScan, so app.listen is called in the same turn,
\* whether a scan is in progress or not.
listenCalled(scanning) == "binding"

\* A trigger that finds a run in progress putting the timer back by one
\* more interval.
nextTriggerAfterSkip(due, scanning) ==
  IF scanning THEN due + 2 * IntervalMs ELSE due + IntervalMs

\* setInterval: the timer that was due at `due` is due again one interval
\* later, whatever its callback finds or does.
nextTrigger(due, scanning) == due + IntervalMs

\* startServer from `await initScanner()` on.  initScanner:
\* startInitialScan() calls runScan(), which runs up to its first await,
\* then schedulePeriodicScan(12) arms the timer; then app.listen is called.
InitScanner ==
  /\ ~started
  /\ started' = TRUE
  /\ IF runScanProceeds(isScanning)
     THEN /\ isScanning' = TRUE
          /\ runs' = [runs EXCEPT ![FreeFrame] = beginLanguage(enterRun(IdleRun, totalScanned), 1)]
     ELSE UNCHANGED <<isScanning, runs>>
  /\ nextScanTime' = now + IntervalMs
  /\ scanInterval' = now + IntervalMs
  /\ server' = listenCalled(isScanning')
  /\ UNCHANGED <<now, lastScanTime, totalScanned, store, scoreVars, exited,
                 history, backoff>>

\* The setInterval callback, due at scanInterval: runScan() either returns at
\* its guard, and the callback sets nextScanTime at once, or starts a run,
\* and the callback sets nextScanTime when that run ends.
TimerCallbackUntil(horizon) ==
  /\ started
  /\ scanInterval \notin {NULL, CLEARED}
  /\ scanInterval <= now
  /\ scanInterval <= horizon
  /\ \E i \in Invocations : runs[i].pc = "idle"
  /\ scanInterval' = nextTrigger(scanInterval, isScanning)
  /\ IF runScanProceeds(isScanning)
     THEN /\ isScanning' = TRUE
          /\ runs' = [runs EXCEPT ![FreeFrame] =
                        beginLanguage([enterRun(IdleRun, totalScanned)
                                         EXCEPT !.scheduled = TRUE], 1)]
          /\ UNCHANGED nextScanTime
     ELSE /\ nextScanTime' = now + IntervalMs
          /\ UNCHANGED <<isScanning, runs>>
  /\ UNCHANGED <<started, now, lastScanTime, totalScanned, store, scoreVars, procVars, history, backoff>>

TimerCallback == TimerCallbackUntil(MaxTime)

\* The callback of app.listen: the server is ready.
ServerListening ==
  /\ server = "binding"
  /\ server' = "listening"
  /\ UNCHANGED <<scannerVars, scoreVars, exited, history, backoff>>

\* Time passes; a due timer callback runs first, and the port is bound
\* before the first period of the scheduler is over.
AdvanceTimeUntil(horizon) ==
  /\ now < horizon
  /\ server = "listening"
  /\ ~(scanInterval \notin {NULL, CLEARED} /\ scanInterval <= now)
  /\ now' = now + 1
  /\ UNCHANGED <<started, isScanning, lastScanTime, totalScanned,
                 scanInterval, nextScanTime, runs, store, scoreVars, procVars, history, backoff>>

AdvanceTime == AdvanceTimeUntil(MaxTime)

\* The search request of run i is answered with status 403.
PageThrottled(i) ==
  /\ runs[i].pc = "page"
  /\ runs' = [runs EXCEPT ![i] = onThrottle(runs[i])]
  /\ UNCHANGED <<started, now, isScanning, lastScanTime, totalScanned,
                 scanInterval, nextScanTime, store, scoreVars, procVars, history, backoff>>

\* sleep(waitTime) is over: `continue`, the loop test, the next request.
ThrottleWake(i) ==
  /\ runs[i].pc = "throttled"
  /\ runs' = [runs EXCEPT ![i] = loopTest(runs[i])]
  /\ UNCHANGED <<started, now, isScanning, lastScanTime, totalScanned,
                 scanInterval, nextScanTime, store, scoreVars, procVars, history, backoff>>

\* The search request ends the loop: a status that is neither ok nor 403,
\* a rejected fetch or an unparsable body (caught at line 138), or a page
\* with no items.
PageBreak(i) ==
  /\ runs[i].pc = "page"
  /\ \E cause \in PageEndings :
       runs' = [runs EXCEPT ![i] = onPageEnd(runs[i], cause)]
  /\ UNCHANGED <<started, now, isScanning, lastScanTime, totalScanned,
                 scanInterval, nextScanTime, store, scoreVars, procVars, history, backoff>>

\* The search request is answered with a page of n items.
PageItems(i) ==
  /\ runs[i].pc = "page"
  /\ \E n \in 1..MaxPageSize :
       runs' = [runs EXCEPT ![i] = onItems(runs[i], n)]
  /\ UNCHANGED <<started, now, isScanning, lastScanTime, totalScanned,
                 scanInterval, nextScanTime, store, scoreVars, procVars, history, backoff>>

\* An exception leaves scanLanguage (its catch block itself throws: the
\* rejection value has no `message` to read): runScan's catch and finally.
ScanLanguageThrows(i) ==
  /\ runs[i].pc = "page"
  /\ finishRun(i, FALSE)
  /\ UNCHANGED <<started, now, totalScanned, scanInterval, store, scoreVars, procVars, history, backoff>>

\* The README request of the current item is answered.  processRepo returns
\* early when there is no README, else builds projectData and awaits
\* saveProject.
ReadmeResponse(i) ==
  /\ runs[i].pc = "readme"
  /\ \E repo \in ScanRepos, response \in ReadmeResponses :
       LET readme == fetchReadme(response)
       IN  IF readmeMissing(readme)
           THEN /\ runs' = [runs EXCEPT ![i] =
                              afterItem(runs[i], readmeOutcome(response))]
                /\ totalScanned' = countItem(totalScanned,
                                               readmeOutcome(response))
           ELSE /\ runs' = [runs EXCEPT ![i] =
                              [runs[i] EXCEPT !.pc = "save", !.readme = "ok",
                                 !.project = projectDataOf(repo, readme)]]
                /\ UNCHANGED totalScanned
  /\ UNCHANGED <<started, now, isScanning, lastScanTime, scanInterval,
                 nextScanTime, store, scoreVars, procVars, history, backoff>>

\* saveProject's statement succeeds.
SaveOk(i) ==
  /\ runs[i].pc = "save"
  /\ store' = upsert(store, runs[i].project, now)
  /\ runs' = [runs EXCEPT ![i] = afterItem(runs[i], "stored")]
  /\ totalScanned' = countItem(totalScanned, "stored")
  /\ UNCHANGED <<started, now, isScanning, lastScanTime, scanInterval,
                 nextScanTime, scoreVars, procVars, history, backoff>>

\* saveProject's statement fails; saveProject catches the error and returns
\* {success: false}.
SaveFails(i) ==
  /\ runs[i].pc = "save"
  /\ runs' = [runs EXCEPT ![i] = onSaveFailed(runs[i])]
  /\ totalScanned' = countItem(totalScanned, "unsaved")
  /\ UNCHANGED <<started, now, isScanning, lastScanTime, scanInterval,
                 nextScanTime, store, scoreVars, procVars, history, backoff>>

\* sleep(500) is over.
ItemWake(i) ==
  /\ runs[i].pc = "itemSleep"
  /\ runs' = [runs EXCEPT ![i] = nextItem(runs[i])]
  /\ UNCHANGED <<started, now, isScanning, lastScanTime, totalScanned,
                 scanInterval, nextScanTime, store, scoreVars, procVars, history, backoff>>

\* sleep(5000) is over: the next language.
NextLanguage(i) ==
  /\ runs[i].pc = "langSleep"
  /\ runs[i].lang < Len(SCAN_LANGUAGES)
  /\ runs' = [runs EXCEPT ![i] = beginLanguage(runs[i], runs[i].lang + 1)]
  /\ UNCHANGED <<started, now, isScanning, lastScanTime, totalScanned,
                 scanInterval, nextScanTime, store, scoreVars, procVars, history, backoff>>

\* The counter reset when a run completes.
ScanCompletedResetsTotal(i) ==
  /\ runs[i].pc = "langSleep"
  /\ runs[i].lang = Len(SCAN_LANGUAGES)
  /\ finishRun(i, TRUE)
  /\ totalScanned' = 0
  /\ UNCHANGED <<started, now, scanInterval, store, scoreVars, procVars, history, backoff>>

\* sleep(5000) is over after the last language: lastScanTime, finally.
ScanCompleted(i) ==
  /\ runs[i].pc = "langSleep"
  /\ runs[i].lang = Len(SCAN_LANGUAGES)
  /\ finishRun(i, TRUE)
  /\ UNCHANGED <<started, now, totalScanned, scanInterval, store, scoreVars, procVars, history, backoff>>

Next ==
  \/ InitScanner
  \/ ServerListening
  \/ TimerCallback
  \/ AdvanceTime
  \/ \E i \in Invocations : PageThrottled(i)
  \/ \E i \in Invocations : ThrottleWake(i)
  \/ \E i \in Invocations : PageBreak(i)
  \/ \E i \in Invocations : PageItems(i)
  \/ \E i \in Invocations : ScanLanguageThrows(i)
  \/ \E i \in Invocations : ReadmeResponse(i)
  \/ \E i \in Invocations : SaveOk(i)
  \/ \E i \in Invocations : SaveFails(i)
  \/ \E i \in Invocations : ItemWake(i)
  \/ \E i \in Invocations : NextLanguage(i)
  \/ \E i \in Invocations : ScanCompleted(i)

Spec == Init /\ [][Next]_vars

\* The scanner with the history of each run kept in its frame.
InitCount ==
  /\ started = FALSE
  /\ now = 0
  /\ isScanning = FALSE
  /\ lastScanTime = NULL
  /\ totalScanned = 0
  /\ scanInterval = NULL
  /\ nextScanTime = NULL
  /\ runs = [i \in Invocations |-> IdleRun]
  /\ store = {}
  /\ inRepo = NULL /\ inReadme = NULL /\ outAnalysis = NULL /\ outScore = NULL
  /\ lastCall = NoCall
  /\ server = "starting"
  /\ exited = FALSE
  /\ history = TRUE
  /\ backoff = NoBackoff

SpecCount == InitCount /\ [][Next]_vars

\* The scheduler over several intervals, beside runs that process no item:
\* a run ends at once, ends after its five languages, or is held up by
\* throttle answers for as long as the provider gives them.
NextSchedule ==
  \/ InitScanner
  \/ ServerListening
  \/ TimerCallbackUntil(MaxTicks)
  \/ AdvanceTimeUntil(MaxTicks)
  \/ \E i \in Invocations : PageThrottled(i)
  \/ \E i \in Invocations : ThrottleWake(i)
  \/ \E i \in Invocations : PageBreak(i)
  \/ \E i \in Invocations : ScanLanguageThrows(i)
  \/ \E i \in Invocations : NextLanguage(i)
  \/ \E i \in Invocations : ScanCompleted(i)

SpecSchedule == Init /\ [][NextSchedule]_vars

\* The awaits of a run all come to an end: every request is answered, one
\* way or another, and every sleep is over at some point.  Which answer the
\* provider gives is up to the provider.
PageAnswered(i) ==
  PageThrottled(i) \/ PageBreak(i) \/ PageItems(i) \/ ScanLanguageThrows(i)

SaveAnswered(i) == SaveOk(i) \/ SaveFails(i)

Fairness ==
  \A i \in Invocations :
    /\ WF_vars(PageAnswered(i))
    /\ WF_vars(ThrottleWake(i))
    /\ WF_vars(ReadmeResponse(i))
    /\ WF_vars(SaveAnswered(i))
    /\ WF_vars(ItemWake(i))
    /\ WF_vars(NextLanguage(i))
    /\ WF_vars(ScanCompleted(i))

SpecFair == Spec /\ Fairness

(***************************************************************************)
(* The process with its ways of being stopped: stop() called on the        *)
(* scanner, and the SIGTERM / SIGINT handlers.                              *)
(***************************************************************************)
\* AutoScanner.stop: clearInterval on the timer, if there is one.
Stop ==
  /\ ~exited
  /\ started
  /\ scanInterval \notin {NULL, CLEARED}
  /\ scanInterval' = CLEARED
  /\ UNCHANGED <<started, now, isScanning, lastScanTime, totalScanned,
                 nextScanTime, runs, store, scoreVars, procVars, history, backoff>>

\* The SIGTERM and SIGINT handlers: `if (scanner) scanner.stop()`, then
\* process.exit(0).  Nothing of the process runs afterwards; its state is
\* kept as it was at the exit.
Shutdown ==
  /\ ~exited
  /\ exited' = TRUE
  /\ scanInterval' = IF started /\ scanInterval # NULL THEN CLEARED
                     ELSE scanInterval
  /\ UNCHANGED <<started, now, isScanning, lastScanTime, totalScanned,
                 nextScanTime, runs, store, scoreVars, server, history, backoff>>

NextLifecycle ==
  \/ ~exited /\ Next
  \/ Stop
  \/ Shutdown

SpecLifecycle == Init /\ [][NextLifecycle]_vars

\* The scanner with stop() called at any instant, the process living on.
NextStop == Next \/ Stop

SpecStop == Init /\ [][NextStop]_vars

(***************************************************************************)
(* The scoring engine on its own: analyzeRepo and calculateUtilityScore    *)
(* applied, as processRepo applies them, to every repository and README    *)
(* of the input sets.                                                      *)
(***************************************************************************)
ScoreRepos == {r \in Repos : r.id = 1 /\ r.name = "n1"}

InitScore ==
  /\ started = FALSE
  /\ now = 0
  /\ isScanning = FALSE
  /\ lastScanTime = NULL
  /\ totalScanned = 0
  /\ scanInterval = NULL
  /\ nextScanTime = NULL
  /\ runs = [i \in Invocations |-> IdleRun]
  /\ store = {}
  /\ inRepo \in ScoreRepos
  /\ inReadme \in Readmes
  /\ outAnalysis = NULL
  /\ outScore = NULL
  /\ lastCall = NoCall
  /\ server = "starting"
  /\ exited = FALSE
  /\ history = FALSE
  /\ backoff = NoBackoff

Score ==
  /\ outScore = NULL
  /\ outAnalysis' = analyzeRepo(inRepo, inReadme)
  /\ outScore' = calculateUtilityScore(inRepo, inReadme,
                                       analyzeRepo(inRepo, inReadme))
  /\ UNCHANGED <<inRepo, inReadme, lastCall, scannerVars, procVars, history, backoff>>

NextScore == Score

SpecScore == InitScore /\ [][NextScore]_vars

(***************************************************************************)
(* The store on its own: saveProject called, as processRepo calls it, with *)
(* the projectData of any repository and README, at any instant.           *)
(***************************************************************************)
\* saveProject(projectData): the statement succeeds.
StoreSave ==
  /\ \E in \in StoreInputs :
       LET projectData == projectDataOf(in.repo, in.readme)
       IN  /\ store' = upsert(store, projectData, now)
           /\ lastCall' = [project |-> projectData, success |-> TRUE]
  /\ UNCHANGED <<started, now, isScanning, lastScanTime, totalScanned,
                 scanInterval, nextScanTime, runs,
                 inRepo, inReadme, outAnalysis, outScore, procVars, history, backoff>>

\* saveProject(projectData): the statement fails, {success: false}.
StoreSaveFails ==
  /\ \E in \in StoreInputs :
       lastCall' = [project |-> projectDataOf(in.repo, in.readme),
                    success |-> FALSE]
  /\ UNCHANGED <<started, now, isScanning, lastScanTime, totalScanned,
                 scanInterval, nextScanTime, runs, store,
                 inRepo, inReadme, outAnalysis, outScore, procVars, history, backoff>>

\* Time passes between two calls.
StoreTick ==
  /\ now < MaxTime
  /\ now' = now + 1
  /\ UNCHANGED <<started, isScanning, lastScanTime, totalScanned,
                 scanInterval, nextScanTime, runs, store, scoreVars, procVars, history, backoff>>

(***************************************************************************)
(* The throttle branch of scanLanguage on its own.  Instants are in        *)
(* milliseconds since the epoch, the header in seconds since the epoch, as *)
(* a decimal string that parseInt reads in full.                           *)
(***************************************************************************)
\* The longest delay setTimeout takes.
TIMEOUT_MAX == 2147483647

\* resetTime ? (parseInt(resetTime) * 1000 - Date.now()) : 60000
waitTimeOf(resetTime, dateNow) ==
  IF resetTime # NoHeader THEN resetTime * 1000 - dateNow ELSE 60000

\* setTimeout(resolve, ms): a delay below 1 or above TIMEOUT_MAX is taken
\* as 1.
timerDelay(ms) == IF ms < 1 \/ ms > TIMEOUT_MAX THEN 1 ELSE ms

\* sleep(ms) called at dateNow: the instant from which its promise resolves.
sleep(ms, dateNow) == dateNow + timerDelay(ms)

ResetHeaders == {NoHeader} \cup 0..MaxReset

\* Instants at which the 403 arrives: on a second, just after and just
\* before one.
ResponseTimes == {k * 1000 + d : k \in 0..MaxReset, d \in {0, 1, 999}}

InitWait ==
  /\ started = FALSE
  /\ now = 0
  /\ isScanning = FALSE
  /\ lastScanTime = NULL
  /\ totalScanned = 0
  /\ scanInterval = NULL
  /\ nextScanTime = NULL
  /\ runs = [i \in Invocations |-> IdleRun]
  /\ store = {}
  /\ inRepo = NULL /\ inReadme = NULL /\ outAnalysis = NULL /\ outScore = NULL
  /\ lastCall = NoCall
  /\ server = "starting"
  /\ exited = FALSE
  /\ history = FALSE
  /\ backoff \in [reset : ResetHeaders, at : ResponseTimes, done : {FALSE},
                   waitTime : {0}, wake : {0}]

\* Lines 103-108: the wait is computed and handed to sleep.
RateLimitHit ==
  /\ ~backoff.done
  /\ backoff' =
       [backoff EXCEPT
          !.done = TRUE,
          !.waitTime = waitTimeOf(backoff.reset, backoff.at),
          !.wake = sleep(waitTimeOf(backoff.reset, backoff.at), backoff.at)]
  /\ UNCHANGED <<scannerVars, scoreVars, procVars, history>>

NextWait == RateLimitHit

SpecWait == InitWait /\ [][NextWait]_vars

(***************************************************************************)
(* Re-scans of one repository: processRepo with the README in hand and the *)
(* statement of saveProject succeeding, called again and again with other  *)
(* star counts and other READMEs.                                          *)
(***************************************************************************)
RescanWords ==
  { {}, {"Install"}, {"Install", "usage"}, {"typescript"},
    {"typescript", "async", "security"},
    {"typescript", "async", "security", "performance", "production"} }

RescanReadmes ==
  {r \in [words : RescanWords, len : Lengths \ {0}] :
     r.len >= TextLen(r.words)}

\* processRepo(repo) from line 159 on.
Rescan ==
  /\ \E repo \in ScoreRepos, readme \in RescanReadmes :
       /\ inRepo' = repo
       /\ inReadme' = readme
       /\ outAnalysis' = analyzeRepo(repo, readme)
       /\ outScore' = calculateUtilityScore(repo, readme,
                                            analyzeRepo(repo, readme))
       /\ store' = upsert(store, projectDataOf(repo, readme), now)
  /\ UNCHANGED <<started, now, isScanning, lastScanTime, totalScanned,
                 scanInterval, nextScanTime, runs, lastCall, procVars,
                 history, backoff>>

NextRescan == Rescan \/ StoreTick

SpecRescan == Init /\ [][NextRescan]_vars

NextStore == StoreSave \/ StoreSaveFails \/ StoreTick

SpecStore == Init /\ [][NextStore]_vars

(***************************************************************************)
(* Properties.                                                             *)
(***************************************************************************)
RowsOf(table, id) == {row \in table : row.github_id = id}

\* C1  Single-flight: in every step at most one runScan frame is active
\* afterwards, and a timer callback that fires while isScanning is true
\* leaves the frames as they are (no page request issued, nothing queued)
\* and isScanning true.
C1_SingleFlight ==
  [][ /\ Cardinality({i \in Invocations : runs'[i].pc # "idle"}) <= 1
      /\ (scanInterval # NULL /\ scanInterval' # scanInterval /\ isScanning)
           => (runs' = runs /\ isScanning') ]_vars

\* The initial run is still in progress after the timer callback due at
\* `now` has fired.
C1_Witness ==
  /\ isScanning
  /\ now > 0
  /\ scanInterval = now + IntervalMs
  /\ \E i \in Invocations : runs[i].pc = "page" /\ ~runs[i].scheduled
  /\ Cardinality(ActiveRuns) = 1

\* C2  From the 403 answer to a page request until the next request of that
\* language, every step leaves the frame's language, page and scannedCount
\* and the scanner's totalScanned unchanged, and leads only to that request.
C2_ThrottleRetriesSamePage ==
  [][ \A i \in Invocations :
        (\/ runs[i].pc = "page" /\ runs'[i].pc = "throttled"
         \/ runs[i].pc = "throttled")
        => /\ runs'[i].pc \in {"throttled", "page"}
           /\ runs'[i].lang = runs[i].lang
           /\ runs'[i].page = runs[i].page
           /\ runs'[i].scannedCount = runs[i].scannedCount
           /\ totalScanned' = totalScanned ]_vars

\* A 403 on the request for page 2, after one item was scanned.
C2_Witness ==
  \E i \in Invocations :
    /\ runs[i].pc = "throttled"
    /\ runs[i].page = 2
    /\ runs[i].scannedCount = 1
    /\ totalScanned > 1

\* C3  (as claimed) A 403 on the README request never ends processRepo with
\* the item skipped: no frame is past processRepo with a throttled README.
C3_ReadmeThrottleNeverSkips ==
  \A i \in Invocations :
    ~(runs[i].pc = "itemSleep" /\ runs[i].readme = "throttle")

\* C4  (as claimed) A run does not end before its last language: a frame
\* that is at a language before the last is still active after every step.
C4_RunSurvivesLanguageFailure ==
  [][ \A i \in Invocations :
        (runs[i].pc # "idle" /\ runs[i].lang < Len(SCAN_LANGUAGES))
        => runs'[i].pc # "idle" ]_vars

\* C5  Upsert idempotence: the table never holds two rows with one
\* github_id, and a successful saveProject for a github_id already stored
\* leaves exactly one row for it, with the stars of the call and the
\* created_at of the row that was there.
C5_UpsertIdempotent ==
  [][ /\ \A r1, r2 \in store' : r1.github_id = r2.github_id => r1 = r2
      /\ ((lastCall' # lastCall \/ store' # store) /\ lastCall'.success)
           => \A old \in RowsOf(store, lastCall'.project.github_id) :
                /\ Cardinality(RowsOf(store', old.github_id)) = 1
                /\ \A new \in RowsOf(store', old.github_id) :
                     /\ new.stars = lastCall'.project.stars
                     /\ new.created_at = old.created_at ]_vars

\* A row inserted with 100 stars and saved again later with 10001.
C5_Witness ==
  /\ lastCall.success
  /\ \E row \in store :
       /\ row.github_id = lastCall.project.github_id
       /\ row.name = "n1"
       /\ row.stars = 10001
       /\ row.created_at < row.scanned_at

\* C6  Skip rule: the step in which the README fetch comes back absent
\* (not found, or empty) or failed leaves the table unchanged, does not call
\* saveProject, leaves the run in progress, and counts the item in
\* scannedCount.
C6_SkipRule ==
  [][ \A i \in Invocations :
        (runs[i].pc = "readme" /\ runs'[i].readme \in {"absent", "failed"})
        => /\ store' = store
           /\ runs'[i].pc = "itemSleep"
           /\ isScanning'
           /\ runs'[i].scannedCount = runs[i].scannedCount + 1 ]_vars

\* An item was skipped for its absent README while the table holds a row.
C6_Witness ==
  \E i \in Invocations :
    /\ runs[i].pc = "itemSleep"
    /\ runs[i].readme = "absent"
    /\ runs[i].scannedCount = 1
    /\ store # {}

\* C7  Quota bound: scannedCount never exceeds the quota, and no item is in
\* processRepo (README fetch or saveProject pending) once the quota is
\* reached.
C7_QuotaBound ==
  \A i \in Invocations :
    /\ runs[i].scannedCount <= REPOS_PER_LANGUAGE
    /\ runs[i].pc \in {"readme", "save"}
         => runs[i].scannedCount < REPOS_PER_LANGUAGE

\* The quota is reached with items of the page left over.
C7_Witness ==
  \E i \in Invocations :
    /\ runs[i].pc = "itemSleep"
    /\ runs[i].scannedCount = REPOS_PER_LANGUAGE
    /\ runs[i].items > 1

\* C8  Score bounds: every score returned lies between 5.0 and 10.0
\* (50 and 100 tenths).
C8_ScoreBounds == outScore # NULL => (50 <= outScore /\ outScore <= 100)

\* The cap applies: more than 10000 stars, excellent documentation and at
\* least three feature tags add up to more than 10.
C8_Witness ==
  /\ outScore = 100
  /\ inRepo.stars > 10000
  /\ outAnalysis.documentation_quality = "excellent"
  /\ Len(outAnalysis.features) >= 3

\* The categories in priority order, each with its terms.
CategoryOrder ==
  << [category |-> "authentication", terms |-> {"auth", "authentication"}],
     [category |-> "api",            terms |-> {"api", "rest"}],
     [category |-> "database",       terms |-> {"database", "orm"}],
     [category |-> "ui",             terms |-> {"ui", "component"}],
     [category |-> "framework",      terms |-> {"framework"}],
     [category |-> "cli",            terms |-> {"cli", "command"}],
     [category |-> "testing",        terms |-> {"testing", "test"}] >>

CategoryMatches(readme) ==
  {k \in 1..Len(CategoryOrder) :
     \E t \in CategoryOrder[k].terms : readmeIncludes(readme, t)}

\* C9  Category priority: the category returned is that of the first entry
\* of CategoryOrder one of whose terms occurs in the lower-cased README, and
\* general when there is none; with an authentication term and an api term
\* it is authentication.
C9_CategoryPriority ==
  outScore # NULL =>
    /\ \A k \in CategoryMatches(inReadme) :
         (\A j \in CategoryMatches(inReadme) : k <= j)
           => outAnalysis.category = CategoryOrder[k].category
    /\ CategoryMatches(inReadme) = {} => outAnalysis.category = "general"
    /\ ({1, 2} \subseteq CategoryMatches(inReadme))
         => outAnalysis.category = "authentication"

\* A README with both an authentication term and an api term was analysed.
C9_Witness ==
  /\ outScore # NULL
  /\ readmeIncludes(inReadme, "auth")
  /\ readmeIncludes(inReadme, "api")
  /\ outAnalysis.category = "authentication"

\* C11  The initial scan does not block start-up: in the step in which
\* initScanner runs, runScan has issued the first page request of the first
\* language and is suspended there with isScanning true, and app.listen has
\* been called; the server then becomes ready by the callback of that call
\* alone, in a step no part of the scanner takes part in.
C11_InitialScanNonBlocking ==
  [][ /\ (~started /\ started')
        => /\ isScanning'
           /\ server' = "binding"
           /\ \E i \in Invocations :
                runs'[i].pc = "page" /\ runs'[i].lang = 1 /\ ~runs'[i].scheduled
      /\ (server # "listening" /\ server' = "listening")
        => (server = "binding" /\ UNCHANGED scannerVars) ]_vars

\* The server is ready while the initial run is still at its first request.
C11_Witness ==
  /\ server = "listening"
  /\ isScanning
  /\ lastScanTime = NULL
  /\ totalScanned = 0
  /\ \E i \in Invocations :
       runs[i].pc = "page" /\ runs[i].lang = 1 /\ ~runs[i].scheduled

\* C12  (as claimed) Once the timer is cleared no run is started, and a
\* call of stop() during a run, also the one the shutdown handlers make,
\* leaves that run in progress in a process that goes on running it.
C12_StopSparesRun ==
  [][ /\ scanInterval = CLEARED
        => {i \in Invocations : runs'[i].pc # "idle"} \subseteq ActiveRuns
      /\ (scanInterval # CLEARED /\ scanInterval' = CLEARED /\ isScanning)
        => (runs' = runs /\ isScanning' /\ ~exited') ]_vars

\* C13  (as claimed) Every run ends: whenever isScanning is true it is
\* false again later, whatever the provider answers.
C13_EveryRunEnds == isScanning ~> ~isScanning

\* C14  totalScanned never decreases: no step, whether it starts a run,
\* ends one, skips a trigger, stops the scanner or lets time pass, takes
\* it below its value.
C14_TotalScannedMonotonic == [][totalScanned' >= totalScanned]_vars

\* A scheduled run is under way after an earlier run has counted items and
\* ended, and stop() has been called.
C14_Witness ==
  /\ totalScanned > 0
  /\ lastScanTime # NULL
  /\ scanInterval = CLEARED
  /\ \E i \in Invocations : runs[i].scheduled /\ runs[i].pc # "idle"

\* C15  When a run returns to Idle, totalScanned is its value at the start of
\* that run plus the number of items the run passed to processRepo, the
\* skipped and the unsaved ones included.
C15_TotalIsStartPlusAttempted ==
  [][ (isScanning /\ ~isScanning') =>
        \A i \in ActiveRuns :
          totalScanned' = runs[i].startTotal + runs[i].attempted ]_vars

\* A scheduled run, started after an earlier run had counted items, has
\* returned to Idle with more items attempted than were ever stored.
C15_Witness ==
  /\ history
  /\ ~isScanning
  /\ lastScanTime = MaxTime
  /\ nextScanTime = MaxTime + IntervalMs
  /\ totalScanned > Cardinality(store)
  /\ store # {}

\* C16  (as claimed) Every return of a run to Idle records the completion
\* time: in the step in which isScanning goes from true to false,
\* lastScanTime is the instant of that step.
C16_EveryRunEndRecordsTime ==
  [][ (isScanning /\ ~isScanning') => lastScanTime' = now ]_vars

\* C17  Upsert frame: a successful saveProject for a github_id already
\* stored leaves one row for it, which differs from the row that was there
\* in stars, readme_content, ai_analysis, utility_score and scanned_at at
\* most: github_id, created_at, name, full_name, description, language and
\* topics are the stored ones; and every other row is in the table as it
\* was, with no row added.
C17_UpsertFrame ==
  [][ ((lastCall' # lastCall \/ store' # store) /\ lastCall'.success)
        => \A old \in RowsOf(store, lastCall'.project.github_id) :
             /\ \A new \in RowsOf(store', old.github_id) :
                  /\ new = [old EXCEPT
                              !.stars = new.stars,
                              !.readme_content = new.readme_content,
                              !.ai_analysis = new.ai_analysis,
                              !.utility_score = new.utility_score,
                              !.scanned_at = new.scanned_at]
                  /\ new.github_id = old.github_id
                  /\ new.created_at = old.created_at
                  /\ new.name = old.name
                  /\ new.full_name = old.full_name
                  /\ new.description = old.description
                  /\ new.language = old.language
                  /\ new.topics = old.topics
             /\ store' \ RowsOf(store', old.github_id)
                  = store \ RowsOf(store, old.github_id) ]_vars

\* A repository stored under one name was saved again later under another
\* name, with other metadata, while the table holds a row for every other
\* github_id: its row has the new stars and the old name.
C17_Witness ==
  /\ lastCall.success
  /\ Cardinality(store) = MaxIds
  /\ \E row \in store :
       /\ row.github_id = lastCall.project.github_id
       /\ row.stars = lastCall.project.stars
       /\ row.name # lastCall.project.name
       /\ row.topics # lastCall.project.topics
       /\ row.created_at < row.scanned_at

\* C18  A failed saveProject does not end the language scan: the step in
\* which saveProject returns, failed or not, takes the frame to the sleep
\* after the item, in the same language and page, with the item counted in
\* scannedCount and the run in progress, and a failed one leaves the table
\* as it was; and after a failed save the next step of the frame hands the
\* next item of the page to processRepo, unless the page or the quota is
\* used up.
C18_SaveFailureDoesNotAbort ==
  [][ \A i \in Invocations :
        /\ (runs[i].pc = "save" /\ runs'[i] # runs[i])
             => /\ runs'[i].pc = "itemSleep"
                /\ runs'[i].readme \in {"stored", "unsaved"}
                /\ runs'[i].scannedCount = runs[i].scannedCount + 1
                /\ runs'[i].lang = runs[i].lang
                /\ runs'[i].page = runs[i].page
                /\ runs'[i].items = runs[i].items
                /\ isScanning'
                /\ (runs'[i].readme = "unsaved" => store' = store)
        /\ (/\ runs[i].pc = "itemSleep" /\ runs[i].readme = "unsaved"
            /\ runs[i].items > 1
            /\ runs[i].scannedCount < REPOS_PER_LANGUAGE
            /\ runs'[i] # runs[i])
             => /\ runs'[i].pc = "readme"
                /\ runs'[i].items = runs[i].items - 1
                /\ runs'[i].lang = runs[i].lang
                /\ runs'[i].page = runs[i].page ]_vars

\* The first item of a page was not saved, is counted, and the next item of
\* the page is to come.
C18_Witness ==
  \E i \in Invocations :
    /\ runs[i].pc = "itemSleep"
    /\ runs[i].readme = "unsaved"
    /\ runs[i].scannedCount = 1
    /\ runs[i].items > 1
    /\ runs[i].scannedCount < REPOS_PER_LANGUAGE
    /\ isScanning

\* C19  Early termination: the step in which a page request is answered
\* with an empty result set, a status that is neither ok nor 403, or an
\* exception ends the scan of the language with scanLanguage returning: the
\* frame goes to the sleep before the next language, the run is still in
\* progress and totalScanned is what it was; after such an answer the frame
\* issues no page request before the next language begins, and the next page
\* request of the frame is for the next language.
C19_EarlyTermination ==
  [][ \A i \in Invocations :
        /\ (runs[i].pc = "page" /\ runs'[i].answer \in PageEndings)
             => /\ runs'[i].pc = "langSleep"
                /\ runs'[i].lang = runs[i].lang
                /\ isScanning'
                /\ totalScanned' = totalScanned
        /\ runs'[i].answer \in PageEndings => runs'[i].pc = "langSleep"
        /\ (runs[i].pc = "langSleep" /\ runs'[i].pc = "page")
             => runs'[i].lang = runs[i].lang + 1 ]_vars

\* The request for the second page of a language failed with an exception
\* after the item of the first page had been counted.
C19_Witness ==
  \E i \in Invocations :
    /\ runs[i].pc = "langSleep"
    /\ runs[i].answer = "exception"
    /\ runs[i].lang = 1
    /\ totalScanned = 1
    /\ isScanning

\* The frames with a provider request outstanding: a page request or a
\* README fetch.
Requesting == {i \in Invocations : runs[i].pc \in {"page", "readme"}}

\* The language a frame is at.
LanguageOf(run) == SCAN_LANGUAGES[run.lang]

\* C20  Strict sequencing: at most one provider request is outstanding at any
\* instant; a run begins with a page request for JavaScript; the language of
\* a run changes only once the scan of the language before has returned and
\* the sleep after it is over, to the next of JavaScript, Python, Java,
\* TypeScript, Go; and a run ends normally after Go only.
C20_StrictSequencing ==
  [][ /\ Cardinality(Requesting) <= 1
      /\ Cardinality(Requesting') <= 1
      /\ \A i \in Invocations :
           /\ (runs[i].pc = "idle" /\ runs'[i].pc # "idle")
                => /\ runs'[i].pc = "page"
                   /\ LanguageOf(runs'[i]) = "JavaScript"
           /\ (runs[i].pc # "idle" /\ runs'[i].pc # "idle"
               /\ runs'[i].lang # runs[i].lang)
                => /\ runs[i].pc = "langSleep"
                   /\ runs'[i].pc = "page"
                   /\ <<LanguageOf(runs[i]), LanguageOf(runs'[i])>>
                        \in {<<"JavaScript", "Python">>, <<"Python", "Java">>,
                             <<"Java", "TypeScript">>, <<"TypeScript", "Go">>}
           /\ (runs[i].pc = "langSleep" /\ runs'[i].pc = "idle")
                => LanguageOf(runs[i]) = "Go" ]_vars

\* A run has come to Go, the last language, and its README fetch is the one
\* request outstanding.
C20_Witness ==
  /\ Cardinality(Requesting) = 1
  /\ \E i \in Requesting :
       /\ LanguageOf(runs[i]) = "Go"
       /\ runs[i].pc = "readme"

\* The timer set by schedulePeriodicScan is running.
TimerActive == started /\ scanInterval \notin {NULL, CLEARED}

\* C21  The scheduler triggers at every multiple of the interval: the timer
\* is always due at a multiple of the interval that is not in the past and
\* at most one interval ahead, and time does not pass over a trigger that is
\* due; a trigger fires at the instant it is due and leaves the timer due one
\* interval later; a trigger that finds a run in progress starts no run and
\* leaves the run alone, a trigger that finds none starts one.
C21_TriggersEveryInterval ==
  [][ /\ TimerActive' =>
           /\ scanInterval' % IntervalMs = 0
           /\ now' <= scanInterval'
           /\ scanInterval' <= now' + IntervalMs
      /\ (TimerActive /\ now' # now) => now < scanInterval
      /\ (TimerActive /\ scanInterval' # scanInterval) =>
           /\ now = scanInterval
           /\ scanInterval' = scanInterval + IntervalMs
           /\ isScanning => (runs' = runs /\ isScanning')
           /\ ~isScanning =>
                /\ isScanning'
                /\ \E i \in Invocations :
                     /\ runs[i].pc = "idle"
                     /\ runs'[i].pc = "page"
                     /\ runs'[i].scheduled ]_vars

\* The initial scan is still in progress after two intervals: two triggers
\* found it running and started nothing, and the timer is due at the third.
C21_Witness ==
  /\ now = 2 * IntervalMs
  /\ scanInterval = 3 * IntervalMs
  /\ isScanning
  /\ Cardinality(ActiveRuns) = 1
  /\ \A i \in ActiveRuns : ~runs[i].scheduled

\* The score as the claim gives it, in tenths.
ClaimedScore(stars, analysis) ==
  LET P == IF stars > 10000 THEN 20
           ELSE IF stars > 1000 THEN 10
           ELSE IF stars > 100 THEN 5
           ELSE 0
      Q == CASE analysis.documentation_quality = "excellent" -> 15
             [] analysis.documentation_quality = "good"      -> 10
             [] analysis.documentation_quality = "basic"     -> 5
             [] analysis.documentation_quality = "poor"      -> 0
      F == Len(analysis.features)
      R == IF analysis.production_ready THEN 10 ELSE 0
  IN  Min(100, 50 + P + Q + 2 * F + R)

C23_WaitUntilReset ==
  backoff.done =>
    /\ backoff.waitTime >= 0
    /\ backoff.reset # NoHeader => backoff.wake >= backoff.reset * 1000
    /\ backoff.reset = NoHeader => backoff.waitTime = 60000

\* C24  (as claimed) Every stored record has in its category column the
\* category of the analysis stored with it.
C24_CategoryMatchesAnalysis ==
  \A row \in store : row.category = row.ai_analysis.category

\* getNextScanTime: the difference it turns into hours and minutes.
timeUntilNext == nextScanTime - now

\* C25  (as claimed) While the timer of the scheduler is running,
\* nextScanTime is the instant at which the timer is next due, and the time
\* until then is not negative.
C25_NextScanTimeIsNextTrigger ==
  TimerActive => (nextScanTime = scanInterval /\ timeUntilNext >= 0)

\* C26  has_documentation is true exactly when documentation_quality is not
\* 'poor', whatever the length of the document and whichever of the install
\* and usage/example terms it holds.
C26_DocumentationFlagMatchesQuality ==
  outScore # NULL =>
    (outAnalysis.has_documentation
       <=> outAnalysis.documentation_quality # "poor")

\* A document of 500 characters with both terms: no documentation, poor.
C26_Witness ==
  /\ outScore # NULL
  /\ inReadme.len = 500
  /\ readmeIncludes(inReadme, "install")
  /\ readmeIncludes(inReadme, "usage")
  /\ ~outAnalysis.has_documentation
  /\ outAnalysis.documentation_quality = "poor"
====
